---- MODULE Spec2Model ----
(***************************************************************************)
(* A model of the pointer-value-pair crate: PointerValuePair (pair.rs),    *)
(* which packs an integer in the low alignment bits of a raw pointer, and  *)
(* Cow (cow.rs), the pointer-sized borrow-or-own box built on it.          *)
(*                                                                         *)
(* SpecPair exercises the packing functions on bounded inputs; Spec is     *)
(* the state machine of a caller using the safe Cow API.                   *)
(***************************************************************************)
EXTENDS Integers, Naturals, Sequences, FiniteSets, TLC

\* ------------------------------------------------------------------ bounds

\* Width in bits of the modelled usize (the machine's is 64; the packing only
\* uses |, & and !, which act bit by bit, so no carry crosses the width).
WordBits == 6

\* Pointee alignments range over 2^0 .. 2^MaxAlignLog.
MaxAlignLog == 5

\* Slice lengths range over 0 .. MaxLen.
MaxLen == 2

RECURSIVE Pow2(_)
Pow2(n) == IF n = 0 THEN 1 ELSE 2 * Pow2(n - 1)

Word == 0 .. (Pow2(WordBits) - 1)

Aligns == { Pow2(k) : k \in 0 .. MaxAlignLog }

\* Tags tried at construction: every alignment's max_value is below the
\* largest of them.
Tags == 0 .. Pow2(MaxAlignLog)

Lens == 0 .. MaxLen

\* ------------------------------------------------------------------ state

VARIABLES
    align,      \* mem::align_of::<T>() of the pointee type in use
    kind,       \* Spec: the pointee of the run's Cows: T (len 1), or [T] of a length
    arg,        \* SpecPair: the caller's arguments [addr, len, tag]
    call,       \* SpecPair: the last constructor call and its outcome
    ret,        \* SpecPair: the last accessor call on that pair and its result
    objs,       \* Spec: the values the caller created, by index (address / align)
    boxes,      \* Spec: addresses of the Box<T> / Box<[T]> values the caller holds
    cows,       \* Spec: the caller's Cow variables
    last,       \* Spec: the most recent call and what it did
    wild        \* Spec: a Box::from_raw or deref hit something that is no live value

vars == <<align, kind, arg, call, ret, objs, boxes, cows, last, wild>>

NoCall == [op |-> "none"]

NoRet == [op |-> "none"]

\* --------------------------------------------------- usize bit operations

RECURSIVE BitAndN(_, _, _)
BitAndN(x, y, n) ==
    IF n = 0 THEN 0
    ELSE (IF x % 2 = 1 /\ y % 2 = 1 THEN 1 ELSE 0)
         + 2 * BitAndN(x \div 2, y \div 2, n - 1)

RECURSIVE BitOrN(_, _, _)
BitOrN(x, y, n) ==
    IF n = 0 THEN 0
    ELSE (IF x % 2 = 1 \/ y % 2 = 1 THEN 1 ELSE 0)
         + 2 * BitOrN(x \div 2, y \div 2, n - 1)

\* x & y on usize
BitAnd(x, y) == BitAndN(x, y, WordBits)

\* x | y on usize
BitOr(x, y) == BitOrN(x, y, WordBits)

\* !x on usize
BitNot(x) == (Pow2(WordBits) - 1) - x

\* usize::count_ones
RECURSIVE count_ones(_)
count_ones(x) == IF x = 0 THEN 0 ELSE (x % 2) + count_ones(x \div 2)

\* ------------------------------------------------------ pair.rs, Sized T
\* A type T is represented by its alignment A = mem::align_of::<T>().

align_bits_off_by_one(A) == A

align_bits(A) == A - 1

available_bits(A) == count_ones(align_bits(A))

max_value(A) == align_bits(A)

\* The outcome of a constructor: a pair, or the assert!'s panic with the two
\* numbers its message formats.
Panic(bits, val) == [ok |-> FALSE, bits |-> bits, value |-> val]

new_strict_assert(A, p, val) ==
    IF val < align_bits(A)
    THEN [ok |-> TRUE, pv |-> BitOr(p, val)]
    ELSE Panic(available_bits(A), val)

new(A, p, val) ==
    IF val <= align_bits(A)
    THEN [ok |-> TRUE, pv |-> BitOr(p, val)]
    ELSE Panic(available_bits(A), val)

ptr_keeps_tag(A, pv) == pv

ptr(A, pv) == BitAnd(pv, BitNot(align_bits(A)))

value(A, pv) == BitAnd(pv, align_bits(A))

\* ---------------------------------------------------- pair.rs, slices [T]
\* A *const [T] is a fat pointer: [addr, len].

Fat(a, n) == [addr |-> a, len |-> n]

\* ptr_len reads the length word through a reference to [()]; forming that
\* reference from a null pointer is undefined behaviour, so any length may
\* come out.
ptr_len(fp) == IF fp.addr = 0 THEN Lens ELSE {fp.len}

available_bits_slice(A) == count_ones(align_bits(A))

max_value_slice(A) == align_bits(A)

new_slice_tags_len(A, fp, val, len) ==
    IF val <= align_bits(A)
    THEN [ok |-> TRUE, pv |-> Fat(BitOr(fp.addr, val), BitOr(len, val))]
    ELSE Panic(count_ones(align_bits(A)), val)

\* new_slice, given the length ptr_len returned
new_slice(A, fp, val, len) ==
    IF val <= align_bits(A)
    THEN [ok |-> TRUE, pv |-> Fat(BitOr(fp.addr, val), len)]
    ELSE Panic(available_bits_slice(A), val)

\* <PointerValuePair<[T]>>::ptr, given the length ptr_len returned
ptr_slice(A, pv, len) == Fat(BitAnd(pv.addr, BitNot(align_bits(A))), len)

value_slice(A, pv) == BitAnd(pv.addr, align_bits(A))

\* ------------------------------------------------------------- cow.rs
\* Bounds of the Cow state machine.

\* Values (stack values and heap allocations) the caller creates in one run.
MaxObjs == 2

\* Cow variables the caller has.
MaxCows == 1

\* Pointee alignments of the Cow runs range over 2^0 .. 2^MaxCowAlignLog.
MaxCowAlignLog == 1

BORROWED == 0

OWNED == 1

Obj == 1 .. MaxObjs

Slot == 1 .. MaxCows

CowAligns == { Pow2(k) : k \in 0 .. MaxCowAlignLog }

\* The k-th value lives at address k * align: aligned, non-null, and never
\* reused, so an address names one value for the whole run.
AddrOf(k) == k * align

ObjAt(a) == IF a % align = 0 /\ (a \div align) \in Obj THEN a \div align ELSE 0

NoObj == [kind |-> "none", frees |-> 0, drops |-> 0, adopted |-> FALSE]

\* The pointee of a run: Sized T, or [T] with one of the lengths (each value of
\* the run is of that type).
Kinds == {[slice |-> FALSE, len |-> 1]} \cup
         {[slice |-> TRUE, len |-> n] : n \in Lens}

NoCow == [live |-> FALSE, slice |-> FALSE, pv |-> 0, len |-> 0]

NoLast == [op |-> "init", slot |-> 0, src |-> -1, arg |-> 0, res |-> 0,
           clones |-> 0, freed |-> {}, ok |-> TRUE]

\* Cow { inner, _phantom }: inner is a PointerValuePair<T> (the word pv) or a
\* PointerValuePair<[T]> (the word pv and the length len).
MkCow(sl, pv, len) == [live |-> TRUE, slice |-> sl, pv |-> pv, len |-> len]

Inner(c) == Fat(c.pv, c.len)

\* ptr_len on a pointer that came from a reference or a Box (never null)
len_of(fp) == CHOOSE l \in ptr_len(fp) : TRUE

\* PointerValuePairAccess::value, dispatched on the pointee kind
access_value(c) ==
    IF c.slice THEN value_slice(align, Inner(c)) ELSE value(align, c.pv)

\* PointerValuePairAccess::ptr / mut_ptr, as a fat pointer (len 1 for Sized T)
access_ptr(c) ==
    IF c.slice THEN ptr_slice(align, Inner(c), len_of(Inner(c)))
    ELSE Fat(ptr(align, c.pv), 1)

\* Cow::borrowed(v): the pair holding &v and BORROWED
borrowed(a) == new(align, a, BORROWED)

\* Cow::owned(v): the pair holding Box::into_raw(v) and OWNED
owned(a) == new(align, a, OWNED)

\* Cow::borrowed_slice(v)
borrowed_slice(fp) == new_slice(align, fp, BORROWED, len_of(fp))

\* Cow::owned_slice(v)
owned_slice(fp) == new_slice(align, fp, OWNED, len_of(fp))

drop_ignores_tag(c) == {access_ptr(c)}

\* <Cow as Drop>::drop: the pointers it hands to drop(Box::from_raw(..))
Cow_drop(c) == IF access_value(c) = OWNED THEN {access_ptr(c)} ELSE {}

into_owned_no_forget(c) ==
    IF value(align, c.pv) = OWNED
    THEN [owned |-> TRUE, p |-> Fat(ptr(align, c.pv), 1), forget |-> FALSE]
    ELSE [owned |-> FALSE, p |-> Fat(ptr(align, c.pv), 1), forget |-> FALSE]

into_owned_always_clones(c) ==
    [owned |-> FALSE, p |-> Fat(ptr(align, c.pv), 1), forget |-> FALSE]

\* Cow::into_owned: which branch runs, the pointer it takes the Box from
\* (Owned) or clones the referent of (Borrowed), and whether self is forgotten.
\* A clone is a new allocation of the length the cloned pointer carries.
into_owned(c) ==
    IF value(align, c.pv) = OWNED
    THEN [owned |-> TRUE, p |-> Fat(ptr(align, c.pv), 1), forget |-> TRUE]
    ELSE [owned |-> FALSE, p |-> Fat(ptr(align, c.pv), 1), forget |-> FALSE]

\* Cow::into_owned_slice
into_owned_slice(c) ==
    IF value_slice(align, Inner(c)) = OWNED
    THEN [owned |-> TRUE, p |-> ptr_slice(align, Inner(c), len_of(Inner(c))),
          forget |-> TRUE]
    ELSE [owned |-> FALSE, p |-> ptr_slice(align, Inner(c), len_of(Inner(c))),
          forget |-> FALSE]

into_owned_cow_always_transfers(c) ==
    [owned |-> TRUE, p |-> Fat(ptr(align, c.pv), 1), forget |-> TRUE]

\* Cow::into_owned_cow: in the Owned branch the result is Cow { inner: self.inner }
\* and self is forgotten; in the Borrowed branch the referent at p is cloned,
\* boxed and handed to Cow::owned.
into_owned_cow(c) ==
    IF value(align, c.pv) = OWNED
    THEN [owned |-> TRUE, p |-> Fat(ptr(align, c.pv), 1), forget |-> TRUE]
    ELSE [owned |-> FALSE, p |-> Fat(ptr(align, c.pv), 1), forget |-> FALSE]

\* Cow::into_owned_cow_slice
into_owned_cow_slice(c) ==
    IF value_slice(align, Inner(c)) = OWNED
    THEN [owned |-> TRUE, p |-> ptr_slice(align, Inner(c), len_of(Inner(c))),
          forget |-> TRUE]
    ELSE [owned |-> FALSE, p |-> ptr_slice(align, Inner(c), len_of(Inner(c))),
          forget |-> FALSE]

\* ------------------------------------------------ memory of the caller

\* drop(Box<..>) at address a: the allocation is released and each element's
\* destructor runs. (Counts stop growing at two frees.)
Free(os, a) ==
    LET k == ObjAt(a) IN
    IF k = 0 \/ os[k].frees >= 2 THEN os
    ELSE [os EXCEPT ![k].frees = @ + 1, ![k].drops = @ + kind.len]

FreeAll(os, S) == IF S = {} THEN os ELSE Free(os, (CHOOSE fp \in S : TRUE).addr)

\* fp points at a whole heap allocation that has not been released
LiveHeap(os, fp) ==
    /\ ObjAt(fp.addr) # 0
    /\ os[ObjAt(fp.addr)].kind = "heap"
    /\ os[ObjAt(fp.addr)].frees = 0
    /\ fp.len = kind.len

\* fp points at a whole value that still exists
LiveAt(os, fp) ==
    /\ ObjAt(fp.addr) # 0
    /\ os[ObjAt(fp.addr)].kind # "none"
    /\ os[ObjAt(fp.addr)].frees = 0
    /\ fp.len = kind.len

\* the index the next value gets, 0 when the run's values are used up
FreshObj ==
    IF \E k \in Obj : objs[k].kind = "none"
    THEN CHOOSE k \in Obj : objs[k].kind = "none" /\
                            \A j \in Obj : objs[j].kind = "none" => k <= j
    ELSE 0

NewObj(where) ==
    [kind |-> where, frees |-> 0, drops |-> 0, adopted |-> FALSE]

\* Some live Cow borrows the value k: the lifetime 'a of Cow<'a, T> keeps the
\* caller from dropping or moving that value meanwhile.
Borrowed(k) ==
    \E s \in Slot :
        /\ cows[s].live
        /\ access_value(cows[s]) = BORROWED
        /\ access_ptr(cows[s]).addr = AddrOf(k)

\* the caller holds value k itself (a local, or the content of a Box)
Held(k) ==
    /\ objs[k].frees = 0
    /\ \/ objs[k].kind = "stack"
       \/ objs[k].kind = "heap" /\ AddrOf(k) \in boxes

Addrs(S) == {fp.addr : fp \in S}

Did(op, s, src, a, res, clones, freed, ok) ==
    [op |-> op, slot |-> s, src |-> src, arg |-> a, res |-> res,
     clones |-> clones, freed |-> freed, ok |-> ok]

pairVars == <<arg, call, ret>>

\* ------------------------------------------------ the caller's steps

\* let b = Box::new(v) / a boxed slice of n elements
BoxNew ==
    /\ FreshObj # 0
    /\ objs' = [objs EXCEPT ![FreshObj] = NewObj("heap")]
    /\ boxes' = boxes \cup {AddrOf(FreshObj)}
    /\ last' = Did("box_new", 0, -1, 0, AddrOf(FreshObj), 0, {}, TRUE)
    /\ UNCHANGED <<align, kind, pairVars, cows, wild>>

\* let v = value / an array of n elements, on the stack
LocalNew ==
    /\ FreshObj # 0
    /\ objs' = [objs EXCEPT ![FreshObj] = NewObj("stack")]
    /\ last' = Did("local_new", 0, -1, 0, AddrOf(FreshObj), 0, {}, TRUE)
    /\ UNCHANGED <<align, kind, pairVars, boxes, cows, wild>>

\* drop(b) for a Box the caller holds
BoxDrop(k) ==
    /\ AddrOf(k) \in boxes
    /\ ~Borrowed(k)
    /\ objs' = Free(objs, AddrOf(k))
    /\ boxes' = boxes \ {AddrOf(k)}
    /\ wild' = (wild \/ ~LiveHeap(objs, Fat(AddrOf(k), kind.len)))
    /\ last' = Did("box_drop", 0, -1, AddrOf(k), 0, 0, {AddrOf(k)}, TRUE)
    /\ UNCHANGED <<align, kind, pairVars, cows>>

\* drop(v) for a local value
LocalDrop(k) ==
    /\ objs[k].kind = "stack"
    /\ objs[k].frees = 0
    /\ ~Borrowed(k)
    /\ objs' = Free(objs, AddrOf(k))
    /\ last' = Did("local_drop", 0, -1, AddrOf(k), 0, 0, {AddrOf(k)}, TRUE)
    /\ UNCHANGED <<align, kind, pairVars, boxes, cows, wild>>

\* cows[s] = Cow::borrowed(&v) / Cow::borrowed_slice(&v[..]) with outcome r of
\* the pair constructor
Borrow(op, s, k, r) ==
    /\ ~cows[s].live
    /\ Held(k)
    /\ cows' = IF r.ok
               THEN [cows EXCEPT ![s] =
                        IF kind.slice THEN MkCow(TRUE, r.pv.addr, r.pv.len)
                        ELSE MkCow(FALSE, r.pv, 1)]
               ELSE cows
    /\ last' = Did(op, s, -1, AddrOf(k), AddrOf(k), 0, {}, r.ok)
    /\ UNCHANGED <<align, kind, pairVars, objs, boxes, wild>>

Cow_borrowed(s, k) ==
    /\ ~kind.slice
    /\ Borrow("borrowed", s, k, borrowed(AddrOf(k)))

Cow_borrowed_slice(s, k) ==
    /\ kind.slice
    /\ Borrow("borrowed_slice", s, k, borrowed_slice(Fat(AddrOf(k), kind.len)))

\* cows[s] = Cow::owned(b) / Cow::owned_slice(b): Box::into_raw(b) takes the
\* allocation out of the Box before the pair constructor runs, so when that
\* panics nobody owns it any more.
Adopt(op, s, k, r) ==
    /\ ~cows[s].live
    /\ AddrOf(k) \in boxes
    /\ ~Borrowed(k)
    /\ boxes' = boxes \ {AddrOf(k)}
    /\ cows' = IF r.ok
               THEN [cows EXCEPT ![s] =
                        IF kind.slice THEN MkCow(TRUE, r.pv.addr, r.pv.len)
                        ELSE MkCow(FALSE, r.pv, 1)]
               ELSE cows
    /\ objs' = IF r.ok THEN [objs EXCEPT ![k].adopted = TRUE] ELSE objs
    /\ last' = Did(op, s, -1, AddrOf(k), AddrOf(k), 0, {}, r.ok)
    /\ UNCHANGED <<align, kind, pairVars, wild>>

Cow_owned(s, k) ==
    /\ ~kind.slice
    /\ Adopt("owned", s, k, owned(AddrOf(k)))

Cow_owned_slice(s, k) ==
    /\ kind.slice
    /\ Adopt("owned_slice", s, k, owned_slice(Fat(AddrOf(k), kind.len)))

\* What running self's destructor at the end of a consuming call does, unless
\* self was passed to mem::forget.
SelfDrop(c, forget) == IF forget THEN {} ELSE Cow_drop(c)

\* let b = cows[s].into_owned() / .into_owned_slice(), following plan
IntoOwned(op, s, plan) ==
    LET c == cows[s]
        gone == SelfDrop(c, plan.forget)
    IN
    /\ c.live
    /\ plan.owned \/ FreshObj # 0
    /\ IF plan.owned
       THEN /\ boxes' = boxes \cup {plan.p.addr}
            /\ objs' = FreeAll(objs, gone)
            /\ wild' = (wild \/ ~LiveHeap(objs, plan.p)
                             \/ \E a \in gone : ~LiveHeap(objs, a))
            /\ last' = Did(op, s, access_value(c), access_ptr(c).addr, plan.p.addr,
                           0, Addrs(gone), TRUE)
       ELSE /\ boxes' = boxes \cup {AddrOf(FreshObj)}
            /\ objs' = FreeAll([objs EXCEPT ![FreshObj] = NewObj("heap")], gone)
            /\ wild' = (wild \/ ~LiveAt(objs, plan.p)
                             \/ \E a \in gone : ~LiveHeap(objs, a))
            /\ last' = Did(op, s, access_value(c), access_ptr(c).addr,
                           AddrOf(FreshObj), 1, Addrs(gone), TRUE)
    /\ cows' = [cows EXCEPT ![s] = NoCow]
    /\ UNCHANGED <<align, kind, pairVars>>

Cow_into_owned(s) ==
    /\ ~cows[s].slice
    /\ IntoOwned("into_owned", s, into_owned(cows[s]))

Cow_into_owned_slice(s) ==
    /\ cows[s].slice
    /\ IntoOwned("into_owned_slice", s, into_owned_slice(cows[s]))

\* cows[s] = cows[s].into_owned_cow() / .into_owned_cow_slice(), following
\* plan; r is the outcome of Cow::owned / Cow::owned_slice on the boxed clone.
IntoOwnedCow(op, s, plan, r) ==
    LET c == cows[s]
        gone == SelfDrop(c, plan.forget)
    IN
    /\ c.live
    /\ plan.owned \/ FreshObj # 0
    /\ IF plan.owned
       THEN /\ cows' = [cows EXCEPT ![s] = MkCow(c.slice, c.pv, c.len)]
            /\ objs' = FreeAll(objs, gone)
            /\ wild' = (wild \/ \E a \in gone : ~LiveHeap(objs, a))
            /\ last' = Did(op, s, access_value(c), access_ptr(c).addr,
                           access_ptr(c).addr, 0, Addrs(gone), TRUE)
       ELSE /\ cows' = [cows EXCEPT ![s] =
                          IF ~r.ok THEN NoCow
                          ELSE IF c.slice THEN MkCow(TRUE, r.pv.addr, r.pv.len)
                          ELSE MkCow(FALSE, r.pv, 1)]
            /\ objs' = FreeAll([objs EXCEPT ![FreshObj] =
                                  [NewObj("heap") EXCEPT !.adopted = r.ok]],
                               gone)
            /\ wild' = (wild \/ ~LiveAt(objs, plan.p)
                             \/ \E a \in gone : ~LiveHeap(objs, a))
            /\ last' = Did(op, s, access_value(c), access_ptr(c).addr,
                           AddrOf(FreshObj), 1, Addrs(gone), r.ok)
    /\ UNCHANGED <<align, kind, pairVars, boxes>>

Cow_into_owned_cow(s) ==
    /\ ~cows[s].slice
    /\ IntoOwnedCow("into_owned_cow", s, into_owned_cow(cows[s]),
                    owned(AddrOf(FreshObj)))

Cow_into_owned_cow_slice(s) ==
    /\ cows[s].slice
    /\ IntoOwnedCow("into_owned_cow_slice", s, into_owned_cow_slice(cows[s]),
                    owned_slice(Fat(AddrOf(FreshObj),
                                    into_owned_cow_slice(cows[s]).p.len)))

\* drop(cows[s]), or cows[s] going out of scope
Cow_dropped(s) ==
    LET c == cows[s]
        gone == Cow_drop(c)
    IN
    /\ c.live
    /\ objs' = FreeAll(objs, gone)
    /\ wild' = (wild \/ \E a \in gone : ~LiveHeap(objs, a))
    /\ cows' = [cows EXCEPT ![s] = NoCow]
    /\ last' = Did("drop", s, access_value(c), access_ptr(c).addr, 0, 0,
                   Addrs(gone), TRUE)
    /\ UNCHANGED <<align, kind, pairVars, boxes>>

InitCow ==
    /\ objs = [k \in Obj |-> NoObj]
    /\ boxes = {}
    /\ cows = [s \in Slot |-> NoCow]
    /\ last = NoLast
    /\ wild = FALSE

Init ==
    /\ align \in CowAligns
    /\ kind \in Kinds
    /\ arg = [addr |-> 0, len |-> 0, tag |-> 0]
    /\ call = NoCall
    /\ ret = NoRet
    /\ InitCow

Next ==
    \/ BoxNew
    \/ LocalNew
    \/ \E k \in Obj : BoxDrop(k)
    \/ \E k \in Obj : LocalDrop(k)
    \/ \E s \in Slot, k \in Obj : Cow_borrowed(s, k)
    \/ \E s \in Slot, k \in Obj : Cow_borrowed_slice(s, k)
    \/ \E s \in Slot, k \in Obj : Cow_owned(s, k)
    \/ \E s \in Slot, k \in Obj : Cow_owned_slice(s, k)
    \/ \E s \in Slot : Cow_into_owned(s)
    \/ \E s \in Slot : Cow_into_owned_slice(s)
    \/ \E s \in Slot : Cow_into_owned_cow(s)
    \/ \E s \in Slot : Cow_into_owned_cow_slice(s)
    \/ \E s \in Slot : Cow_dropped(s)

Spec == Init /\ [][Next]_vars

\* -------------------------------------------------- claims about cow.rs

\* Cow variable s holds an Owned container whose address is value k.
OwnsAt(s, k) ==
    /\ cows[s].live
    /\ access_value(cows[s]) = OWNED
    /\ access_ptr(cows[s]).addr = AddrOf(k)

IntoOwnedOps == {"into_owned", "into_owned_slice"}

IntoOwnedCowOps == {"into_owned_cow", "into_owned_cow_slice"}

OwnedOps == {"owned", "owned_slice"}

\* C1: every allocation is released at most once and runs kind.len element
\* destructors per release; nothing is released through a pointer that is not
\* a live allocation; an allocation a Box or an Owned container refers to has
\* not been released, and has exactly one such owner; an allocation that was
\* adopted into an Owned container and has no owner left has been released
\* exactly once.
C1_ExactlyOnce ==
    /\ ~wild
    /\ \A k \in Obj :
        /\ objs[k].frees <= 1
        /\ objs[k].drops = objs[k].frees * kind.len
        /\ AddrOf(k) \in boxes =>
              /\ objs[k].kind = "heap"
              /\ objs[k].frees = 0
        /\ \A s \in Slot : OwnsAt(s, k) =>
              /\ objs[k].kind = "heap"
              /\ objs[k].frees = 0
              /\ access_ptr(cows[s]).len = kind.len
              /\ AddrOf(k) \notin boxes
              /\ \A t \in Slot : OwnsAt(t, k) => t = s
        /\ (/\ objs[k].adopted
            /\ AddrOf(k) \notin boxes
            /\ \A s \in Slot : ~OwnsAt(s, k)) =>
              /\ objs[k].frees = 1
              /\ objs[k].drops = kind.len

\* an owned sequence of MaxLen elements went through into_owned_cow_slice
\* and was then destroyed: MaxLen destructors ran
C1_Witness ==
    /\ kind = [slice |-> TRUE, len |-> MaxLen]
    /\ last.op = "drop" /\ last.src = OWNED
    /\ \E k \in Obj :
          /\ last.freed = {AddrOf(k)}
          /\ objs[k].adopted
          /\ objs[k].frees = 1
          /\ objs[k].drops = MaxLen

\* what holds right after into_owned / into_owned_slice
C5_After ==
    last.op \in IntoOwnedOps =>
        /\ ~cows[last.slot].live
        /\ last.freed = {}
        /\ last.res \in boxes
        /\ LiveHeap(objs, Fat(last.res, kind.len))
        /\ IF last.src = OWNED
           THEN last.clones = 0 /\ last.res = last.arg
           ELSE /\ last.clones = 1
                /\ last.res # last.arg
                /\ LiveAt(objs, Fat(last.arg, kind.len))

\* what a step that is into_owned / into_owned_slice, or the later drop of a
\* Box, changes
C5_Step ==
    /\ (last'.op \in IntoOwnedOps /\ last'.src = OWNED) => objs' = objs
    /\ (last'.op \in IntoOwnedOps /\ last'.src # OWNED) =>
          /\ objs[ObjAt(last'.res)].kind = "none"
          /\ \A k \in Obj : k # ObjAt(last'.res) => objs'[k] = objs[k]
    /\ last'.op = "box_drop" =>
          /\ objs[ObjAt(last'.arg)].frees = 0
          /\ objs'[ObjAt(last'.arg)].frees = 1
          /\ \A k \in Obj : k # ObjAt(last'.arg) => objs'[k] = objs[k]

\* C5: into_owned consumes the container. From Owned it returns the same
\* allocation, with no clone and nothing released, so the value is destroyed
\* once, when the returned Box is; from Borrowed it clones once into a new
\* allocation and leaves the referent as it was, as does dropping the clone.
C5_IntoOwned == [][C5_Step /\ C5_After']_vars

\* an Owned scalar container was turned into its Box
C5_Witness ==
    /\ last.op = "into_owned" /\ last.src = OWNED
    /\ last.res = last.arg /\ last.res \in boxes
    /\ objs[ObjAt(last.res)].adopted

\* C6: into_owned_cow always yields an Owned container: from Owned the same
\* address with no clone and nothing released; from Borrowed one clone in a
\* new allocation the result owns, the referent still live.
C6_AlwaysOwned ==
    last.op \in IntoOwnedCowOps =>
        /\ last.ok
        /\ cows[last.slot].live
        /\ access_value(cows[last.slot]) = OWNED
        /\ access_ptr(cows[last.slot]).addr = last.res
        /\ LiveHeap(objs, Fat(last.res, kind.len))
        /\ last.freed = {}
        /\ IF last.src = OWNED
           THEN last.clones = 0 /\ last.res = last.arg
           ELSE /\ last.clones = 1
                /\ last.res # last.arg
                /\ LiveAt(objs, Fat(last.arg, kind.len))

\* C7: owned / owned_slice returns an Owned container whose address is the
\* adopted allocation, whatever the alignment, without copying.
C7_AdoptAnyAlignment ==
    last.op \in OwnedOps =>
        /\ last.ok
        /\ cows[last.slot].live
        /\ access_value(cows[last.slot]) = OWNED
        /\ access_ptr(cows[last.slot]).addr = last.arg
        /\ last.clones = 0
        /\ LiveHeap(objs, Fat(last.arg, kind.len))

\* C8: a step that destroys a Borrowed container releases nothing and leaves
\* every value and Box as it was; a step in which the owner destroys a value
\* releases that value, for the first time, running kind.len destructors, and
\* touches no other value.
C8_Step ==
    /\ (last'.op = "drop" /\ last'.src = BORROWED) =>
          /\ last'.freed = {}
          /\ objs' = objs
          /\ boxes' = boxes
          /\ LiveAt(objs', Fat(last'.arg, kind.len))
    /\ last'.op \in {"local_drop", "box_drop"} =>
          /\ objs[ObjAt(last'.arg)].frees = 0
          /\ objs'[ObjAt(last'.arg)].frees = 1
          /\ objs'[ObjAt(last'.arg)].drops = kind.len
          /\ \A k \in Obj : k # ObjAt(last'.arg) => objs'[k] = objs[k]

C8_BorrowedDropIsNoop == [][C8_Step]_vars

\* a borrowed view of MaxLen elements was destroyed; the storage is untouched
C8_Witness ==
    /\ kind = [slice |-> TRUE, len |-> MaxLen]
    /\ last.op = "drop" /\ last.src = BORROWED
    /\ LiveAt(objs, Fat(last.arg, MaxLen))
    /\ objs[ObjAt(last.arg)].drops = 0

\* every live container's tag is BORROWED or OWNED
C10_TagOk ==
    \A s \in Slot : cows[s].live => access_value(cows[s]) \in {BORROWED, OWNED}

\* a Cow variable that holds a container before and after a step keeps its
\* tag, unless the step is into_owned_cow on it; the result of into_owned_cow
\* is Owned and the result of into_owned is a Box.
C10_Step ==
    /\ \A s \in Slot : (cows[s].live /\ cows'[s].live) =>
          /\ access_value(cows[s]) = OWNED => access_value(cows'[s]) = OWNED
          /\ access_value(cows[s]) # access_value(cows'[s]) =>
                /\ last'.op \in IntoOwnedCowOps
                /\ last'.slot = s
    /\ last'.op \in IntoOwnedCowOps =>
          (cows'[last'.slot].live => access_value(cows'[last'.slot]) = OWNED)
    /\ last'.op \in IntoOwnedOps => last'.res \in boxes'

InitPair ==
    /\ align \in Aligns
    /\ kind = [slice |-> FALSE, len |-> 1]
    /\ arg \in [addr : Word, len : Lens, tag : Tags]
    /\ call = NoCall
    /\ ret = NoRet
    /\ InitCow

\* PointerValuePair::new(ptr, value); a thin pointer has no length, so the
\* scalar call is made from the arguments whose len is 1
New ==
    /\ call = NoCall
    /\ arg.len = 1
    /\ call' = [op |-> "new", out |-> new(align, arg.addr, arg.tag)]
    /\ ret' = NoRet
    /\ UNCHANGED <<align, kind, arg, objs, boxes, cows, last, wild>>

\* PointerValuePair::new_slice(ptr, value)
NewSlice ==
    /\ call = NoCall
    /\ \E len \in ptr_len(Fat(arg.addr, arg.len)) :
          call' = [op |-> "new_slice",
                   out |-> new_slice(align, Fat(arg.addr, arg.len), arg.tag, len)]
    /\ ret' = NoRet
    /\ UNCHANGED <<align, kind, arg, objs, boxes, cows, last, wild>>

\* pv.ptr() on the pair the constructor returned (pairs are Copy)
CallPtr ==
    /\ call.op \in {"new", "new_slice"}
    /\ call.out.ok
    /\ \/ /\ call.op = "new"
          /\ ret' = [op |-> "ptr", val |-> ptr(align, call.out.pv)]
       \/ /\ call.op = "new_slice"
          /\ \E len \in ptr_len(call.out.pv) :
                ret' = [op |-> "ptr", val |-> ptr_slice(align, call.out.pv, len)]
    /\ UNCHANGED <<align, kind, arg, call, objs, boxes, cows, last, wild>>

\* pv.value()
CallValue ==
    /\ call.op \in {"new", "new_slice"}
    /\ call.out.ok
    /\ ret' = [op |-> "value",
               val |-> IF call.op = "new" THEN value(align, call.out.pv)
                       ELSE value_slice(align, call.out.pv)]
    /\ UNCHANGED <<align, kind, arg, call, objs, boxes, cows, last, wild>>

\* PointerValuePair::<T>::available_bits() / PointerValuePair::<[T]>::available_bits():
\* an associated function of the type, called here before a pair is built
CallAvailableBits ==
    /\ call = NoCall /\ ret = NoRet
    /\ \E sl \in BOOLEAN :
          ret' = [op |-> "available_bits", slice |-> sl,
                  val |-> IF sl THEN available_bits_slice(align)
                          ELSE available_bits(align)]
    /\ UNCHANGED <<align, kind, arg, call, objs, boxes, cows, last, wild>>

\* PointerValuePair::<T>::max_value() / PointerValuePair::<[T]>::max_value()
CallMaxValue ==
    /\ call = NoCall /\ ret = NoRet
    /\ \E sl \in BOOLEAN :
          ret' = [op |-> "max_value", slice |-> sl,
                  val |-> IF sl THEN max_value_slice(align) ELSE max_value(align)]
    /\ UNCHANGED <<align, kind, arg, call, objs, boxes, cows, last, wild>>

NextPair ==
    \/ New
    \/ NewSlice
    \/ CallPtr
    \/ CallValue
    \/ CallAvailableBits
    \/ CallMaxValue

SpecPair == InitPair /\ [][NextPair]_vars

\* ------------------------------------------------- claims about pair.rs

\* The pointer handed to the constructor satisfies I1: its low alignment
\* bits are zero.
ArgAligned == arg.addr % align = 0

\* The index k with 2^k = A (A a power of two).
RECURSIVE Log2(_)
Log2(A) == IF A <= 1 THEN 0 ELSE 1 + Log2(A \div 2)

\* C2: scalar round trip. For an aligned address p and a tag within
\* 0 .. alignment - 1, new(p, tag) succeeds, ptr() gives back p and value()
\* gives back tag.
C2_ScalarRoundTrip ==
    (call.op = "new" /\ ArgAligned /\ arg.tag <= align - 1) =>
        /\ call.out.ok
        /\ ret.op = "ptr" => ret.val = arg.addr
        /\ ret.op = "value" => ret.val = arg.tag

C2_Witness ==
    /\ call.op = "new" /\ ArgAligned /\ arg.addr # 0
    /\ align = 8 /\ arg.tag = 5
    /\ ret.op = "ptr" /\ ret.val = arg.addr

\* C3: sequence round trip. For an aligned, non-null sequence pointer (a, n)
\* and a tag within range, new_slice keeps n in the stored pair, ptr() gives
\* back exactly (a, n) and value() gives back tag.
C3_SliceRoundTrip ==
    (call.op = "new_slice" /\ ArgAligned /\ arg.addr # 0 /\ arg.tag <= align - 1) =>
        /\ call.out.ok
        /\ call.out.pv.len = arg.len
        /\ ret.op = "ptr" => ret.val = Fat(arg.addr, arg.len)
        /\ ret.op = "value" => ret.val = arg.tag

C3_Witness ==
    /\ call.op = "new_slice" /\ ArgAligned /\ arg.addr # 0
    /\ align = 4 /\ arg.tag = 3 /\ arg.len = MaxLen
    /\ ret.op = "ptr" /\ ret.val = Fat(arg.addr, MaxLen)

\* C4: new and new_slice succeed exactly when tag <= alignment - 1; otherwise
\* they panic with a message carrying log2(alignment) and the tag. Alignment 1
\* accepts only tag 0, and alignment 4 rejects tag 4.
C4_ConstructionIffInRange ==
    (call.op \in {"new", "new_slice"}) =>
        /\ call.out.ok <=> arg.tag <= align - 1
        /\ ~call.out.ok =>
              /\ call.out.bits = Log2(align)
              /\ call.out.value = arg.tag
        /\ align = 1 => (call.out.ok <=> arg.tag = 0)
        /\ (align = 4 /\ arg.tag = 4) => ~call.out.ok

C4_Witness ==
    /\ call.op = "new_slice" /\ align = 4 /\ arg.tag = 4
    /\ call.out = Panic(2, 4)

\* C9: capacity law. max_value is alignment - 1 and available_bits is the
\* number of one bits of alignment - 1, i.e. log2(alignment), for the scalar
\* and the slice specialization alike.
C9_CapacityLaw ==
    /\ ret.op = "max_value" => ret.val = align - 1
    /\ ret.op = "available_bits" =>
          /\ Pow2(ret.val) = align
          /\ ret.val = Cardinality({i \in 0 .. WordBits :
                                      ((align - 1) \div Pow2(i)) % 2 = 1})
    /\ (ret.op = "max_value" /\ align = 1) => ret.val = 0
    /\ (ret.op = "max_value" /\ align = 4) => ret.val = 3
    /\ (ret.op = "max_value" /\ align = 8) => ret.val = 7
    /\ (ret.op = "max_value" /\ align = 16) => ret.val = 15
    /\ (ret.op = "max_value" /\ align = 32) => ret.val = 31
    /\ (ret.op = "available_bits" /\ align = 1) => ret.val = 0
    /\ (ret.op = "available_bits" /\ align = 4) => ret.val = 2
    /\ (ret.op = "available_bits" /\ align = 8) => ret.val = 3
    /\ (ret.op = "available_bits" /\ align = 16) => ret.val = 4
    /\ (ret.op = "available_bits" /\ align = 32) => ret.val = 5

C9_Witness ==
    /\ align = 16
    /\ ret = [op |-> "available_bits", slice |-> TRUE, val |-> 4]

====
